---- MODULE Spec2Model ----
(***************************************************************************)
(* Dine_Sync: the database -> HTTP API sync tool (sync.py, in its root and *)
(* its Dine_Sync_DOUBLETAP variant).  main() runs the sync jobs one after  *)
(* another; every job's run() connects, fetches and normalizes the rows,   *)
(* POSTs them (in batches or all at once) and closes its connection.       *)
(***************************************************************************)
EXTENDS Integers, Sequences, FiniteSets, TLC

(* ------------------------------ bounds -------------------------------- *)
\* the largest table a SELECT returns has MaxBlocks * 500 + 1 rows
MaxBlocks == 2
\* only the first MaxOddRows rows of a table may be other than plain rows
MaxOddRows == 1

(* ------------------------- program constants -------------------------- *)
ItemsBatchSize == 1000
BillsMonthBatchSize == 500
KotBatchSize == 500
ItemsTimeout == 120
BillsMonthTimeout == 300
KotTimeout == 300
HTTP_OK == 200

\* timeout=None: the caller of api_post passed no override
None == -1

\* config.json as json.load returns it (the keys the jobs read)
Config ==
    [api |-> [base_url |-> "http://api",
              timeout |-> 30,
              endpoint |-> "/users",
              items_endpoint |-> "/items",
              bills_endpoint |-> "/bills",
              bills_month_endpoint |-> "/bills-month",
              kot_sales_endpoint |-> "/kot",
              cancelled_bills_endpoint |-> "/cancelled"]]

\* config.json after an operator edited it: another server, another timeout
ConfigEdited ==
    [api |-> [base_url |-> "http://api2",
              timeout |-> 60,
              endpoint |-> "/v2/users",
              items_endpoint |-> "/v2/items",
              bills_endpoint |-> "/v2/bills",
              bills_month_endpoint |-> "/v2/bills-month",
              kot_sales_endpoint |-> "/v2/kot",
              cancelled_bills_endpoint |-> "/v2/cancelled"]]

\* no job object exists: there is no self.config
NoConfig ==
    [api |-> [base_url |-> "", timeout |-> 0, endpoint |-> "",
              items_endpoint |-> "", bills_endpoint |-> "",
              bills_month_endpoint |-> "", kot_sales_endpoint |-> "",
              cancelled_bills_endpoint |-> ""]]

ConfigFiles == {"ok", "edited", "absent", "invalid"}

\* load_config(): json.load of the file, or sys.exit(1) on FileNotFoundError
\* and on json.JSONDecodeError
LoadConfig(file) ==
    IF file \in {"absent", "invalid"}
    THEN [exit |-> TRUE, status |-> 1, config |-> NoConfig]
    ELSE [exit |-> FALSE, status |-> 0,
          config |-> IF file = "edited" THEN ConfigEdited ELSE Config]

(* ----------------------------- variables ------------------------------ *)
VARIABLES
    variant,        \* which sync.py runs: "root" or "DOUBLETAP"
    pc,             \* where the process is: in main(), or inside the job's run()
    jobIdx,         \* position in JobOrder of the job main() runs (next)
    conn,           \* run()'s conn: "none" (None / not yet), "open", "closed"
    rowCount,       \* the rows the job's SELECT returned: how many,
    odd,            \* and the kinds of the first ones (see CursorRows)
    fetched,        \* how fetch() ended: "no" (not called), "rows" (returned),
                    \* "query_error" (execute raised), "row_error" (a row raised)
    data,           \* run()'s data: the list fetch() returned
    i,              \* run()'s loop variable of range(0, total_records, batch_size)
    posts,          \* the calls of api_post made by this run(), in order
    sleeps,         \* the calls of time.sleep made by this run()
    closes,         \* the calls of conn.close() made by this run()
    ret,            \* how run() ends: "unset", "True", "False", "raise"
    sync_results,   \* main()'s list of (table name, ok)
    summary,        \* what the summary printed (printed = FALSE before)
    cfgFile,        \* config.json on disk: "ok", "edited" (valid, other values),
                    \* "absent", "invalid" (not JSON)
    config,         \* self.config of the job object main() constructed
    loads,          \* the calls of load_config made in this run
    exit_status,    \* <<>> while the process runs, then <<its exit status>>
    openConns,      \* the database connections that are open
    probe           \* a direct call of a helper and what it returned

vars == <<variant, pc, jobIdx, conn, rowCount, odd, fetched, data, i, posts, sleeps,
          closes, ret, sync_results, summary, cfgFile, config, loads, exit_status,
          openConns, probe>>

(* ------------------------------- jobs --------------------------------- *)
Variants == {"root", "DOUBLETAP"}

\* the order in which main() constructs and runs the sync classes
JobOrder(v) ==
    IF v = "DOUBLETAP"
    THEN <<"AccUsersSync", "ItemsSync", "BillsSync", "BillsMonthSync",
           "KotSalesSync", "CancelledBillsSync">>
    ELSE <<"AccUsersSync", "ItemsSync", "BillsSync",
           "KotSalesSync", "CancelledBillsSync">>

\* the table name main() appends to sync_results with the job's outcome
TableName(v, job) ==
    CASE job = "AccUsersSync" -> "acc_users"
      [] job = "ItemsSync" -> "tb_item_master"
      [] job = "BillsSync" ->
            (IF v = "DOUBLETAP" THEN "dine_bill (7 days)" ELSE "dine_bill")
      [] job = "BillsMonthSync" -> "dine_bill_month (ALL)"
      [] job = "KotSalesSync" -> "dine_kot_sales_detail"
      [] job = "CancelledBillsSync" -> "cancelled_bills"

\* the jobs whose run() sends data[i:i + batch_size] in a loop
BatchedJobs == {"ItemsSync", "BillsMonthSync", "KotSalesSync"}

BatchSize(job) ==
    CASE job = "ItemsSync" -> ItemsBatchSize
      [] job = "BillsMonthSync" -> BillsMonthBatchSize
      [] job = "KotSalesSync" -> KotBatchSize

\* the timeout argument run() passes to api_post (None: not passed)
TimeoutArg(job) ==
    CASE job = "ItemsSync" -> ItemsTimeout
      [] job = "BillsMonthSync" -> BillsMonthTimeout
      [] job = "KotSalesSync" -> KotTimeout
      [] OTHER -> None

\* a BillsMonthSync that posts to the endpoint of the job whose field list it
\* shares
EndpointShared(job) ==
    CASE job = "AccUsersSync" -> config.api.endpoint
      [] job = "ItemsSync" -> config.api.items_endpoint
      [] job = "BillsSync" -> config.api.bills_endpoint
      [] job = "BillsMonthSync" -> config.api.bills_endpoint
      [] job = "KotSalesSync" -> config.api.kot_sales_endpoint
      [] job = "CancelledBillsSync" -> config.api.cancelled_bills_endpoint

\* the endpoint run() passes to api_post
Endpoint(job) ==
    CASE job = "AccUsersSync" -> config.api.endpoint
      [] job = "ItemsSync" -> config.api.items_endpoint
      [] job = "BillsSync" -> config.api.bills_endpoint
      [] job = "BillsMonthSync" -> config.api.bills_month_endpoint
      [] job = "KotSalesSync" -> config.api.kot_sales_endpoint
      [] job = "CancelledBillsSync" -> config.api.cancelled_bills_endpoint

\* the jobs whose run() has an `except Exception` clause (return False);
\* AccUsersSync.run and ItemsSync.run are try/finally only
CatchingJobs == {"BillsSync", "BillsMonthSync", "KotSalesSync", "CancelledBillsSync"}

\* the jobs whose fetch() wraps each row's normalization in try/except/continue
RowTryJobs == {"BillsSync", "BillsMonthSync", "KotSalesSync", "CancelledBillsSync"}

(* ------------------------------- rows --------------------------------- *)
\* What a row of the cursor can be:
\*   plain     every value is a str/int/float/None the normalization accepts
\*   malformed a value the job's normalization raises on (billno 'A12' for
\*             int(float(..)), a numeric acc_users.id for .strip())
\*   decimal   a Decimal value that reaches json.dumps unconverted
\*   opaque    a value (bytes, datetime in an unhandled column) that the
\*             normalization passes through and json cannot encode
\*   dated     a date object in the "date" column of dine_bill, which the
\*             root BillsSync.fetch does not convert
RowKinds(job) ==
    CASE job = "AccUsersSync" -> {"plain", "malformed"}
      [] job = "ItemsSync" -> {"plain", "decimal", "opaque"}
      [] job = "BillsSync" -> {"plain", "malformed", "opaque", "dated"}
      [] OTHER -> {"plain", "malformed", "opaque"}

\* table sizes tried: the small ones, and the multiples of the smaller batch
\* size and their successors
RowCounts ==
    {n \in 0..(MaxBlocks * KotBatchSize + 1) :
        n <= MaxOddRows + 1 \/ n % KotBatchSize \in {0, 1}}

\* the table sizes of the runs that vary the configuration file instead
FewRowCounts == {0, KotBatchSize + 1}

Min(a, b) == IF a < b THEN a ELSE b

\* the rows the cursor yields, in order: n rows, the first ones of kind kinds[k]
CursorRows(n, kinds) ==
    [k \in 1..n |-> [id |-> k, kind |-> IF k \in DOMAIN kinds THEN kinds[k] ELSE "plain"]]

(* ------------------------------ fetch --------------------------------- *)
\* the per-row body of fetch(): the record appended to rows, or an exception.
\* ItemsSync.fetch is dict(zip(fields, row)): values pass through untouched.
NormalizeRow(v, job, row) ==
    [raised |-> (job # "ItemsSync" /\ row.kind = "malformed"),
     rec |-> [id |-> row.id,
              json |-> CASE row.kind = "decimal" -> "Decimal"
                         [] row.kind = "opaque" -> "other"
                         [] row.kind = "dated" ->
                               IF v = "root" /\ job = "BillsSync"
                               THEN "other" ELSE "native"
                         [] OTHER -> "native"]]

Normalized(v, job, rows) ==
    [k \in 1..Len(rows) |-> NormalizeRow(v, job, rows[k]).rec]

Raises(v, job, row) == NormalizeRow(v, job, row).raised

\* fetch() of a job whose loop body is try: ... except Exception: continue
FetchRowTry(v, job, rows) ==
    [raised |-> FALSE, why |-> "rows",
     rows |-> Normalized(v, job, SelectSeq(rows, LAMBDA r : ~Raises(v, job, r)))]

\* fetch() of AccUsersSync / ItemsSync: one list comprehension, no try
FetchComprehension(v, job, rows) ==
    IF \E k \in 1..Len(rows) : Raises(v, job, rows[k])
    THEN [raised |-> TRUE, why |-> "row_error", rows |-> <<>>]
    ELSE [raised |-> FALSE, why |-> "rows", rows |-> Normalized(v, job, rows)]

\* job.fetch(conn): cursor.execute(sql) may raise; then the rows are normalized
Fetch(v, job, queryOk, rows) ==
    IF ~queryOk THEN [raised |-> TRUE, why |-> "query_error", rows |-> <<>>]
    ELSE IF job \in RowTryJobs THEN FetchRowTry(v, job, rows)
    ELSE FetchComprehension(v, job, rows)

(* ----------------------------- api_post ------------------------------- *)
\* decimal_to_float(obj): the `default` hook of json.dumps; TRUE iff it returns
DecimalToFloat(jsonType) == jsonType = "Decimal"

\* json.dumps(data, default=decimal_to_float) returns (does not raise TypeError)
JsonDumpsOk(payload) ==
    \A k \in 1..Len(payload) :
        payload[k].json = "native" \/ DecimalToFloat(payload[k].json)

\* what the network and the server can answer to one requests.post
Statuses == {200, 201, 500}
\* resp.text: empty, a JSON document, or something that is not JSON
Texts == {"", "json", "html"}
\* resp.json() on a body that is not JSON raises requests' JSONDecodeError,
\* a RequestException from requests 2.27 on and a plain ValueError before
Envs ==
    [net : {"ConnectionError", "Timeout"}, status : {0}, text : {""},
     jsonErrIsRequestException : {TRUE}]
    \cup
    [net : {"response"}, status : Statuses, text : {"", "json"},
     jsonErrIsRequestException : {TRUE}]
    \cup
    [net : {"response"}, status : Statuses, text : {"html"},
     jsonErrIsRequestException : BOOLEAN]

\* request_timeout = timeout or self.config['api']['timeout']
RequestTimeout(timeout) ==
    IF timeout # None /\ timeout # 0 THEN timeout ELSE config.api.timeout

\* an api_post without the `except requests.RequestException`
ApiPostNoCatch(endpoint, payload, timeout, env) ==
    LET base == [url |-> <<config.api.base_url, endpoint>>,
                 timeout |-> RequestTimeout(timeout),
                 net |-> env.net, status |-> env.status]
    IN  IF ~JsonDumpsOk(payload)
        THEN [base EXCEPT !.net = "unsent", !.status = 0]
                 @@ [sent |-> FALSE, result |-> "raise"]
        ELSE IF env.net # "response"
        THEN base @@ [sent |-> TRUE, result |-> "raise"]
        ELSE IF env.text # "" /\ env.text # "json"
        THEN base @@ [sent |-> TRUE, result |-> "raise"]
        ELSE base @@ [sent |-> TRUE,
                      result |-> IF env.status = HTTP_OK THEN "ok" ELSE "fail"]

\* api_post(endpoint, data, timeout): what it returns or that it raises.
\* result is "ok" for (True, _), "fail" for (False, _), "raise" for an exception.
ApiPost(endpoint, payload, timeout, env) ==
    LET base == [url |-> <<config.api.base_url, endpoint>>,
                 timeout |-> RequestTimeout(timeout),
                 net |-> env.net, status |-> env.status]
    IN  IF ~JsonDumpsOk(payload)
        THEN [base EXCEPT !.net = "unsent", !.status = 0]
                 @@ [sent |-> FALSE, result |-> "raise"]
        ELSE IF env.net # "response"
        THEN base @@ [sent |-> TRUE, result |-> "fail"]
        ELSE IF env.text # "" /\ env.text # "json"
        THEN base @@ [sent |-> TRUE,
                      result |-> IF env.jsonErrIsRequestException
                                 THEN "fail" ELSE "raise"]
        ELSE base @@ [sent |-> TRUE,
                      result |-> IF env.status = HTTP_OK THEN "ok" ELSE "fail"]

(* ------------------------------ batching ------------------------------ *)
\* data[lo:hi] of Python (0-based, hi exclusive, clipped to len(data))
Slice(s, lo, hi) == SubSeq(s, lo + 1, Min(hi, Len(s)))

\* a batch count that rounds down: the short last batch is not counted
TotalBatchesFloor(total_records, batch_size) ==
    total_records \div batch_size

\* total_batches = (total_records + batch_size - 1) // batch_size
TotalBatches(total_records, batch_size) ==
    (total_records + batch_size - 1) \div batch_size

\* batch_num = (i // batch_size) + 1
BatchNum(start, batch_size) == (start \div batch_size) + 1

\* a range that stops one step early when one record is left over
RangeHasNextShort(start, total_records, batch_size) ==
    start + batch_size + 1 < total_records

\* range(0, total_records, batch_size) yields a value after start
RangeHasNext(start, total_records, batch_size) == start + batch_size < total_records

(* ----------------- str(int(float(x))) on identifiers ------------------ *)
\* A Python str is a sequence of one-character strings.
DigitChars == <<"0", "1", "2", "3", "4", "5", "6", "7", "8", "9">>

DigitSet == {DigitChars[k] : k \in 1..10}

DigitVal(c) == (CHOOSE k \in 1..10 : DigitChars[k] = c) - 1

IsDigits(s) == \A k \in 1..Len(s) : s[k] \in DigitSet

\* the value of a run of decimal digits
RECURSIVE DigitsVal(_)
DigitsVal(s) ==
    IF s = <<>> THEN 0
    ELSE DigitsVal(SubSeq(s, 1, Len(s) - 1)) * 10 + DigitVal(s[Len(s)])

\* s.strip() for the blank
RECURSIVE Strip(_)
Strip(s) ==
    IF s # <<>> /\ s[1] = " " THEN Strip(Tail(s))
    ELSE IF s # <<>> /\ s[Len(s)] = " " THEN Strip(SubSeq(s, 1, Len(s) - 1))
    ELSE s

\* the significand of a Python float (IEEE 754 binary64) has 53 bits
MantissaBits == 53

RECURSIVE BitLength(_)
BitLength(n) == IF n = 0 THEN 0 ELSE 1 + BitLength(n \div 2)

RECURSIVE Pow2(_)
Pow2(e) == IF e = 0 THEN 1 ELSE 2 * Pow2(e - 1)

\* the float nearest to the natural number n: round to nearest, ties to even
RoundToFloat(n) ==
    LET e == BitLength(n) - MantissaBits
    IN  IF e <= 0 THEN n
        ELSE LET p == Pow2(e)
                 q == n \div p
                 r == n % p
             IN  IF r > p \div 2 \/ (r = p \div 2 /\ q % 2 = 1)
                 THEN (q + 1) * p ELSE q * p

\* float(x) of a str: blanks stripped, an optional sign, digits with an
\* optional point; anything else raises ValueError. The value is the sign,
\* the whole part and the digits after the point.
PyFloat(x) ==
    LET t == Strip(x)
        signed == t # <<>> /\ t[1] \in {"-", "+"}
        body == IF signed THEN Tail(t) ELSE t
        dots == {k \in 1..Len(body) : body[k] = "."}
        dot == IF dots = {} THEN Len(body) + 1 ELSE CHOOSE k \in dots : TRUE
        whole == SubSeq(body, 1, dot - 1)
        frac == SubSeq(body, dot + 1, Len(body))
    IN  IF /\ Cardinality(dots) <= 1
           /\ IsDigits(whole) /\ IsDigits(frac)
           /\ Len(whole) + Len(frac) >= 1
        THEN [ok |-> TRUE, neg |-> signed /\ t[1] = "-",
              whole |-> RoundToFloat(DigitsVal(whole)), frac |-> frac]
        ELSE [ok |-> FALSE, neg |-> FALSE, whole |-> 0, frac |-> <<>>]

\* int(f): truncation toward zero
PyInt(f) == IF f.neg THEN 0 - f.whole ELSE f.whole

RECURSIVE StrNat(_)
StrNat(n) ==
    IF n < 10 THEN <<DigitChars[n + 1]>>
    ELSE Append(StrNat(n \div 10), DigitChars[(n % 10) + 1])

\* str(n) of an int
PyStrInt(n) == IF n < 0 THEN <<"-">> \o StrNat(0 - n) ELSE StrNat(n)

\* a normalization that leaves out the int(): str(float(x)), the digits of
\* the value and ".0"
NormalizeIdNoInt(x) ==
    IF PyFloat(x).ok
    THEN [raised |-> FALSE,
          out |-> (IF PyFloat(x).neg THEN <<"-">> ELSE <<>>)
                     \o StrNat(PyFloat(x).whole) \o <<".", "0">>]
    ELSE [raised |-> TRUE, out |-> <<>>]

\* row_dict['billno'] = str(int(float(row_dict['billno'])))
NormalizeId(x) ==
    IF PyFloat(x).ok
    THEN [raised |-> FALSE, out |-> PyStrInt(PyInt(PyFloat(x)))]
    ELSE [raised |-> TRUE, out |-> <<>>]

\* identifiers tried: every small one and some large ones
MaxSmallId == 30

IdValues == (0..MaxSmallId) \cup {1024, 99999, 16777217, 999999999, 2147483647}

\* billno / slno values that arrive as text
IdInputs ==
    {PyStrInt(n) : n \in IdValues} \cup {PyStrInt(0 - n) : n \in {1, 12, 1024}}
    \cup {<<"1", "0", "2", "4", ".", "0">>, <<"0", "0", "1", "2">>,
          <<" ", "7", " ">>, <<"+", "5">>, <<"-", "0">>, <<"1", "2", ".", "9">>,
          <<"A", "1", "2">>, <<>>, <<".">>, <<"1", ".", "2", ".", "3">>}

\* timeout arguments tried for api_post: not passed, and passed values
TimeoutArgs == {None, 0, 1, 30, 60, ItemsTimeout, BillsMonthTimeout}

(* --------------------- the values of a row's fields -------------------- *)
\* A value the cursor yields for one column: None, a str, an int, a float
\* (sign, whole part, digits after the point), or a datetime/date.
PyNone == [t |-> "None", s |-> <<>>, neg |-> FALSE, whole |-> 0, frac |-> <<>>]

PyStr(chars) == [t |-> "str", s |-> chars, neg |-> FALSE, whole |-> 0, frac |-> <<>>]

PyNum(type, neg, whole, frac) ==
    [t |-> type, s |-> <<>>, neg |-> neg, whole |-> whole, frac |-> frac]

PyDate(iso) == [t |-> "datetime", s |-> iso, neg |-> FALSE, whole |-> 0, frac |-> <<>>]

\* bool(v), the test of `if row_dict.get(field):` and of `if row.id`
Truthy(v) ==
    CASE v.t = "None" -> FALSE
      [] v.t = "str" -> v.s # <<>>
      [] v.t \in {"int", "float"} -> v.whole # 0 \/ \E k \in 1..Len(v.frac) : v.frac[k] # "0"
      [] OTHER -> TRUE

\* str(v)
StrOfValue(v) ==
    CASE v.t = "None" -> <<"N", "o", "n", "e">>
      [] v.t = "str" -> v.s
      [] v.t = "int" -> PyStrInt(PyInt(v))
      [] v.t = "float" ->
            (IF v.neg THEN <<"-">> ELSE <<>>) \o StrNat(v.whole) \o <<".">>
               \o (IF v.frac = <<>> THEN <<"0">> ELSE v.frac)
      [] OTHER -> v.s

\* float(v): a str is parsed, a number is converted, None raises TypeError
FloatOfValue(v) ==
    CASE v.t = "str" -> PyFloat(v.s)
      [] v.t = "int" ->
            [ok |-> TRUE, neg |-> v.neg, whole |-> RoundToFloat(v.whole), frac |-> <<>>]
      [] v.t = "float" -> [ok |-> TRUE, neg |-> v.neg, whole |-> v.whole, frac |-> v.frac]
      [] OTHER -> [ok |-> FALSE, neg |-> FALSE, whole |-> 0, frac |-> <<>>]

\* str(int(float(v))) of a column value
IdOf(v) ==
    IF FloatOfValue(v).ok
    THEN [raised |-> FALSE, out |-> PyStr(PyStrInt(PyInt(FloatOfValue(v))))]
    ELSE [raised |-> TRUE, out |-> v]

\* the columns each fetch() names in its row loop
IdFields(j) ==
    CASE j \in {"BillsSync", "BillsMonthSync", "CancelledBillsSync"} -> {"billno"}
      [] j = "KotSalesSync" -> {"slno", "billno"}
      [] OTHER -> {}

TextFields(j) ==
    CASE j = "AccUsersSync" -> {"id", "password"}
      [] j \in {"BillsSync", "BillsMonthSync"} -> {"user"}
      [] j = "KotSalesSync" -> {"item"}
      [] j = "CancelledBillsSync" -> {"creditcard", "colnstatus"}
      [] OTHER -> {}

NumberFields(j) ==
    CASE j \in {"BillsSync", "BillsMonthSync"} -> {"amount"}
      [] j = "KotSalesSync" -> {"qty", "rate"}
      [] OTHER -> {}

\* the root BillsSync.fetch converts "time" only
TimeFields(v, j) ==
    CASE j = "BillsSync" -> IF v = "root" THEN {"time"} ELSE {"time", "date"}
      [] j = "BillsMonthSync" -> {"time", "date"}
      [] j = "CancelledBillsSync" -> {"date"}
      [] OTHER -> {}

Fields == {"id", "password", "billno", "slno", "user", "item", "creditcard",
           "colnstatus", "amount", "qty", "rate", "time", "date", "name"}

\* a row loop that tests the identifier with `if row_dict.get(field):`
NormalizeFieldTruthyId(v, j, field, val) ==
    IF j = "AccUsersSync" /\ field \in TextFields(j)
    THEN IF ~Truthy(val) THEN [raised |-> FALSE, out |-> PyStr(<<>>)]
         ELSE IF val.t = "str" THEN [raised |-> FALSE, out |-> PyStr(Strip(val.s))]
         ELSE [raised |-> TRUE, out |-> val]
    ELSE IF field \in IdFields(j)
    THEN IF Truthy(val) THEN IdOf(val) ELSE [raised |-> FALSE, out |-> val]
    ELSE IF field \in TextFields(j)
    THEN IF Truthy(val)
         THEN [raised |-> FALSE, out |-> PyStr(Strip(StrOfValue(val)))]
         ELSE [raised |-> FALSE, out |-> val]
    ELSE IF field \in NumberFields(j)
    THEN IF val.t # "None"
         THEN IF FloatOfValue(val).ok
              THEN [raised |-> FALSE,
                    out |-> PyNum("float", FloatOfValue(val).neg,
                                  FloatOfValue(val).whole, FloatOfValue(val).frac)]
              ELSE [raised |-> TRUE, out |-> val]
         ELSE [raised |-> FALSE, out |-> val]
    ELSE IF field \in TimeFields(v, j)
    THEN IF Truthy(val)
         THEN [raised |-> FALSE, out |-> PyStr(StrOfValue(val))]
         ELSE [raised |-> FALSE, out |-> val]
    ELSE [raised |-> FALSE, out |-> val]

\* what the row loop of job j makes of the value of one column: the value it
\* stores in the record, or an exception
NormalizeField(v, j, field, val) ==
    IF j = "AccUsersSync" /\ field \in TextFields(j)
    THEN IF ~Truthy(val) THEN [raised |-> FALSE, out |-> PyStr(<<>>)]
         ELSE IF val.t = "str" THEN [raised |-> FALSE, out |-> PyStr(Strip(val.s))]
         ELSE [raised |-> TRUE, out |-> val]
    ELSE IF field \in IdFields(j)
    THEN IF val.t # "None" THEN IdOf(val) ELSE [raised |-> FALSE, out |-> val]
    ELSE IF field \in TextFields(j)
    THEN IF Truthy(val)
         THEN [raised |-> FALSE, out |-> PyStr(Strip(StrOfValue(val)))]
         ELSE [raised |-> FALSE, out |-> val]
    ELSE IF field \in NumberFields(j)
    THEN IF val.t # "None"
         THEN IF FloatOfValue(val).ok
              THEN [raised |-> FALSE,
                    out |-> PyNum("float", FloatOfValue(val).neg,
                                  FloatOfValue(val).whole, FloatOfValue(val).frac)]
              ELSE [raised |-> TRUE, out |-> val]
         ELSE [raised |-> FALSE, out |-> val]
    ELSE IF field \in TimeFields(v, j)
    THEN IF Truthy(val)
         THEN [raised |-> FALSE, out |-> PyStr(StrOfValue(val))]
         ELSE [raised |-> FALSE, out |-> val]
    ELSE [raised |-> FALSE, out |-> val]

\* column values tried
FieldValues ==
    {PyNone,
     PyStr(<<>>), PyStr(<<" ">>), PyStr(<<"a", "b">>), PyStr(<<" ", "a", " ", "b", " ">>),
     PyStr(<<"1", "0", "2", "4">>), PyStr(<<"1", "0", "2", "4", ".", "0">>),
     PyStr(<<"A", "1", "2">>),
     PyNum("int", FALSE, 0, <<>>), PyNum("int", FALSE, 1024, <<>>),
     PyNum("float", FALSE, 0, <<>>), PyNum("float", FALSE, 7, <<>>),
     PyNum("float", FALSE, 1024, <<>>), PyNum("float", TRUE, 3, <<>>),
     PyNum("float", FALSE, 16777217, <<>>), PyNum("float", FALSE, 12, <<"5">>),
     PyDate(<<"2", "0", "2", "5", "-", "0", "1", "-", "3", "1">>)}

(* ------------------------------- state -------------------------------- *)
job == JobOrder(variant)[jobIdx]

\* no helper was called directly
NoProbe == [op |-> "none"]

NoSummary == [printed |-> FALSE, lines |-> <<>>, count_line |-> FALSE,
              success_count |-> 0, total_count |-> 0, all_success |-> FALSE]

\* the locals of run() before it starts / after it has returned
LocalsReset ==
    /\ conn' = "none"
    /\ rowCount' = 0
    /\ odd' = <<>>
    /\ fetched' = "no"
    /\ data' = <<>>
    /\ i' = 0
    /\ posts' = <<>>
    /\ sleeps' = 0
    /\ closes' = 0
    /\ ret' = "unset"

Init ==
    /\ variant \in Variants
    /\ pc = "main"
    /\ jobIdx = 1
    /\ conn = "none"
    /\ rowCount = 0
    /\ odd = <<>>
    /\ fetched = "no"
    /\ data = <<>>
    /\ i = 0
    /\ posts = <<>>
    /\ sleeps = 0
    /\ closes = 0
    /\ ret = "unset"
    /\ sync_results = <<>>
    /\ summary = NoSummary
    /\ cfgFile \in {"ok", "absent", "invalid"}
    /\ config = NoConfig
    /\ loads = 0
    /\ exit_status = <<>>
    /\ openConns = 0
    /\ probe = NoProbe

(* ------------------------------- run() -------------------------------- *)
\* an exception inside run()'s try block: `except Exception: return False`
\* where the job has the clause, otherwise it leaves run() after the finally
OnException(j) == IF j \in CatchingJobs THEN "False" ELSE "raise"

\* main(): XSync() is constructed (load_config succeeds) and run() is called
CallRun ==
    /\ pc = "main"
    /\ jobIdx <= Len(JobOrder(variant))
    /\ ~LoadConfig(cfgFile).exit
    /\ config' = LoadConfig(cfgFile).config
    /\ loads' = loads + 1
    /\ pc' = "connect"
    /\ UNCHANGED <<variant, jobIdx, conn, rowCount, odd, fetched, data, i, posts, sleeps,
                   closes, ret, sync_results, summary>>
    /\ UNCHANGED <<cfgFile, exit_status, openConns, probe>>

\* a constructor that goes on without a configuration when the load fails
ConfigExitGoesOn ==
    /\ pc = "main"
    /\ jobIdx <= Len(JobOrder(variant))
    /\ LoadConfig(cfgFile).exit
    /\ config' = Config
    /\ loads' = loads + 1
    /\ pc' = "connect"
    /\ UNCHANGED <<variant, jobIdx, conn, rowCount, odd, fetched, data, i, posts, sleeps,
                   closes, ret, sync_results, summary>>
    /\ UNCHANGED <<cfgFile, exit_status, openConns, probe>>

\* main(): XSync() is constructed and load_config ends the process: sys.exit(1)
ConfigExit ==
    /\ pc = "main"
    /\ jobIdx <= Len(JobOrder(variant))
    /\ LoadConfig(cfgFile).exit
    /\ loads' = loads + 1
    /\ exit_status' = <<LoadConfig(cfgFile).status>>
    /\ pc' = "exited"
    /\ UNCHANGED <<variant, jobIdx, conn, rowCount, odd, fetched, data, i, posts, sleeps,
                   closes, ret, sync_results, summary>>
    /\ UNCHANGED <<cfgFile, config, openConns, probe>>

\* somebody rewrites, breaks or removes config.json while the tool is between
\* two jobs
EditConfig ==
    /\ pc = "main"
    /\ loads >= 1
    /\ jobIdx <= Len(JobOrder(variant))
    /\ \E f \in ConfigFiles \ {cfgFile} : cfgFile' = f
    /\ UNCHANGED <<variant, pc, jobIdx, conn, rowCount, odd, fetched, data, i, posts,
                   sleeps, closes, ret, sync_results, summary>>
    /\ UNCHANGED <<config, loads, exit_status, openConns, probe>>

\* conn = self.connect_to_database() returned a connection
ConnectOk ==
    /\ pc = "connect"
    /\ conn' = "open"
    /\ openConns' = openConns + 1
    /\ pc' = "fetch"
    /\ UNCHANGED <<variant, jobIdx, rowCount, odd, fetched, data, i, posts, sleeps,
                   closes, ret, sync_results, summary>>
    /\ UNCHANGED <<cfgFile, config, loads, exit_status, probe>>

\* a connect_to_database that lets pyodbc.Error through to run()'s caller
ConnectFailRaises ==
    /\ pc = "connect"
    /\ conn' = "none"
    /\ ret' = "raise"
    /\ pc' = "return"
    /\ UNCHANGED <<variant, jobIdx, rowCount, odd, fetched, data, i, posts, sleeps,
                   closes, sync_results, summary>>
    /\ UNCHANGED <<cfgFile, config, loads, exit_status, openConns, probe>>

\* pyodbc.connect raised pyodbc.Error: connect_to_database returns None and
\* run() returns False before entering its try block
ConnectFail ==
    /\ pc = "connect"
    /\ conn' = "none"
    /\ ret' = "False"
    /\ pc' = "return"
    /\ UNCHANGED <<variant, jobIdx, rowCount, odd, fetched, data, i, posts, sleeps,
                   closes, sync_results, summary>>
    /\ UNCHANGED <<cfgFile, config, loads, exit_status, openConns, probe>>

\* data = self.fetch(conn): the SELECT returns one of `counts` rows
DoFetchFrom(counts) ==
    /\ pc = "fetch"
    /\ \E queryOk \in BOOLEAN, n \in counts :
         \E kinds \in [1..Min(n, MaxOddRows) -> RowKinds(job)] :
            LET f == Fetch(variant, job, queryOk, CursorRows(n, kinds))
            IN  /\ queryOk \/ n = 0
                /\ rowCount' = n
                /\ odd' = kinds
                /\ fetched' = f.why
                /\ data' = f.rows
                /\ IF f.raised
                   THEN ret' = OnException(job) /\ pc' = "finally"
                   ELSE ret' = ret /\ pc' = "fetched"
    /\ UNCHANGED <<variant, jobIdx, conn, i, posts, sleeps, closes,
                   sync_results, summary>>
    /\ UNCHANGED <<cfgFile, config, loads, exit_status, openConns, probe>>

\* data = self.fetch(conn), on a database of any of the table sizes
DoFetch == DoFetchFrom(RowCounts)

\* the same on a database whose tables are empty or just over one batch
DoFetchFew == DoFetchFrom(FewRowCounts)

\* the batched jobs' `if total_records == 0: return True`; every other path
\* goes on to api_post
AfterFetch ==
    /\ pc = "fetched"
    /\ IF job \in BatchedJobs /\ Len(data) = 0
       THEN ret' = "True" /\ pc' = "finally"
       ELSE ret' = ret /\ pc' = "post"
    /\ UNCHANGED <<variant, jobIdx, conn, rowCount, odd, fetched, data, i, posts, sleeps,
                   closes, sync_results, summary>>
    /\ UNCHANGED <<cfgFile, config, loads, exit_status, openConns, probe>>

\* the end of one pass of the for loop: the next i of the range, or the
\* `return True` after the loop
LoopNext(j, idx, total) ==
    IF RangeHasNext(idx, total, BatchSize(j))
    THEN [pc |-> "post", ret |-> "unset", i |-> idx + BatchSize(j)]
    ELSE [pc |-> "finally", ret |-> "True", i |-> idx]

\* a loop without the `if not ok: return False`
AfterPostKeepGoing(j, result, idx, total) ==
    IF result = "raise"
    THEN [pc |-> "finally", ret |-> OnException(j), i |-> idx]
    ELSE IF j \notin BatchedJobs
    THEN [pc |-> "finally", ret |-> IF result = "ok" THEN "True" ELSE "False",
          i |-> idx]
    ELSE IF BatchNum(idx, BatchSize(j)) < TotalBatches(total, BatchSize(j))
    THEN [pc |-> "sleep", ret |-> "unset", i |-> idx]
    ELSE LoopNext(j, idx, total)

\* a loop that sends a failed batch again
AfterPostRetries(j, result, idx, total) ==
    IF result = "raise"
    THEN [pc |-> "finally", ret |-> OnException(j), i |-> idx]
    ELSE IF result # "ok"
    THEN [pc |-> "post", ret |-> "unset", i |-> idx]
    ELSE IF j \notin BatchedJobs
    THEN [pc |-> "finally", ret |-> "True", i |-> idx]
    ELSE IF BatchNum(idx, BatchSize(j)) < TotalBatches(total, BatchSize(j))
    THEN [pc |-> "sleep", ret |-> "unset", i |-> idx]
    ELSE LoopNext(j, idx, total)

\* a loop that sleeps after every accepted batch, the last one included
AfterPostAlwaysSleeps(j, result, idx, total) ==
    IF result = "raise"
    THEN [pc |-> "finally", ret |-> OnException(j), i |-> idx]
    ELSE IF j \notin BatchedJobs
    THEN [pc |-> "finally", ret |-> IF result = "ok" THEN "True" ELSE "False",
          i |-> idx]
    ELSE IF result # "ok"
    THEN [pc |-> "finally", ret |-> "False", i |-> idx]
    ELSE [pc |-> "sleep", ret |-> "unset", i |-> idx]

\* what run() does with the result of api_post
AfterPost(j, result, idx, total) ==
    IF result = "raise"
    THEN [pc |-> "finally", ret |-> OnException(j), i |-> idx]
    ELSE IF j \notin BatchedJobs
    THEN [pc |-> "finally", ret |-> IF result = "ok" THEN "True" ELSE "False",
          i |-> idx]
    ELSE IF result # "ok"
    THEN [pc |-> "finally", ret |-> "False", i |-> idx]
    ELSE IF BatchNum(idx, BatchSize(j)) < TotalBatches(total, BatchSize(j))
    THEN [pc |-> "sleep", ret |-> "unset", i |-> idx]
    ELSE LoopNext(j, idx, total)

\* a loop whose slices overlap by one record: data[i:i + batch_size + 1]
PayloadOverlap(j, d, idx) ==
    IF j \in BatchedJobs THEN Slice(d, idx, idx + BatchSize(j) + 1) ELSE d

\* the payload of the api_post call at loop position idx
Payload(j, d, idx) ==
    IF j \in BatchedJobs THEN Slice(d, idx, idx + BatchSize(j)) ELSE d

\* ok, response = self.api_post(endpoint, batch-or-data, timeout)
DoPost ==
    /\ pc = "post"
    /\ \E batch \in {Payload(job, data, i)}, env \in Envs :
         \E r \in {ApiPost(Endpoint(job), batch, TimeoutArg(job), env)} :
            LET nxt == AfterPost(job, r.result, i, Len(data))
            IN  /\ posts' = Append(posts, r @@ [batch |-> batch])
                /\ pc' = nxt.pc
                /\ ret' = nxt.ret
                /\ i' = nxt.i
    /\ UNCHANGED <<variant, jobIdx, conn, rowCount, odd, fetched, data, sleeps, closes,
                   sync_results, summary>>
    /\ UNCHANGED <<cfgFile, config, loads, exit_status, openConns, probe>>

\* time.sleep(..) between two batches
DoSleep ==
    /\ pc = "sleep"
    /\ sleeps' = sleeps + 1
    /\ LET nxt == LoopNext(job, i, Len(data))
       IN  pc' = nxt.pc /\ ret' = nxt.ret /\ i' = nxt.i
    /\ UNCHANGED <<variant, jobIdx, conn, rowCount, odd, fetched, data, posts, closes,
                   sync_results, summary>>
    /\ UNCHANGED <<cfgFile, config, loads, exit_status, openConns, probe>>

\* conn.close() as the last statement of the try block instead of a finally
FinallyNotOnRaise ==
    /\ pc = "finally"
    /\ IF ret = "raise"
       THEN conn' = conn /\ closes' = closes /\ openConns' = openConns
       ELSE conn' = "closed" /\ closes' = closes + 1 /\ openConns' = openConns - 1
    /\ pc' = "return"
    /\ UNCHANGED <<variant, jobIdx, rowCount, odd, fetched, data, i, posts, sleeps, ret,
                   sync_results, summary>>
    /\ UNCHANGED <<cfgFile, config, loads, exit_status, probe>>

\* a run() that closes the connection only on the way to `return True`
FinallyKeepsOnFailure ==
    /\ pc = "finally"
    /\ IF ret = "True"
       THEN conn' = "closed" /\ closes' = closes + 1 /\ openConns' = openConns - 1
       ELSE conn' = conn /\ closes' = closes /\ openConns' = openConns
    /\ pc' = "return"
    /\ UNCHANGED <<variant, jobIdx, rowCount, odd, fetched, data, i, posts, sleeps, ret,
                   sync_results, summary>>
    /\ UNCHANGED <<cfgFile, config, loads, exit_status, probe>>

\* finally: conn.close()
Finally ==
    /\ pc = "finally"
    /\ conn' = "closed"
    /\ closes' = closes + 1
    /\ openConns' = openConns - 1
    /\ pc' = "return"
    /\ UNCHANGED <<variant, jobIdx, rowCount, odd, fetched, data, i, posts, sleeps, ret,
                   sync_results, summary>>
    /\ UNCHANGED <<cfgFile, config, loads, exit_status, probe>>

(* ------------------- the two variants side by side -------------------- *)
\* the jobs both variants have
SharedJobs == {JobOrder("root")[k] : k \in 1..Len(JobOrder("root"))}

\* a server that accepts every POST
OkEnv == [net |-> "response", status |-> HTTP_OK, text |-> "json",
          jsonErrIsRequestException |-> TRUE]

\* table sizes tried for the two variants: none, one row, two batches
PairRowCounts == {0, 1, KotBatchSize + 1, ItemsBatchSize + 1}

\* the POSTs of run() from loop position idx on and its result; answers[k]
\* is what the k-th POST meets
RECURSIVE SendFrom(_, _, _, _, _)
SendFrom(j, d, idx, answers, k) ==
    LET r == ApiPost(Endpoint(j), Payload(j, d, idx), TimeoutArg(j), answers[k])
        sent == [url |-> r.url, size |-> Len(Payload(j, d, idx)),
                 timeout |-> r.timeout, sent |-> r.sent]
        after == AfterPost(j, r.result, idx, Len(d))
        nxt == IF after.pc = "sleep" THEN LoopNext(j, idx, Len(d)) ELSE after
    IN  IF nxt.pc = "post"
        THEN LET rest == SendFrom(j, d, nxt.i, answers, k + 1)
             IN  [posts |-> <<sent>> \o rest.posts, outcome |-> rest.outcome]
        ELSE [posts |-> <<sent>>, outcome |-> nxt.ret]

\* XSync().run() of variant v as a function of what the database and the
\* server do: the POSTs it issues and what it returns
RunJob(v, j, connOk, queryOk, rows, answers) ==
    IF ~connOk THEN [posts |-> <<>>, outcome |-> "False"]
    ELSE LET f == Fetch(v, j, queryOk, rows)
         IN  IF f.raised THEN [posts |-> <<>>, outcome |-> OnException(j)]
             ELSE IF j \in BatchedJobs /\ Len(f.rows) = 0
             THEN [posts |-> <<>>, outcome |-> "True"]
             ELSE SendFrom(j, f.rows, 0, answers, 1)

(* ------------------------------- main() ------------------------------- *)
\* a main() that records only the jobs that succeeded
ReturnDropsFailed ==
    /\ pc = "return"
    /\ ret \in {"True", "False"}
    /\ sync_results' =
          IF ret = "True"
          THEN Append(sync_results, <<TableName(variant, job), TRUE>>)
          ELSE sync_results
    /\ jobIdx' = jobIdx + 1
    /\ pc' = "main"
    /\ LocalsReset
    /\ config' = NoConfig
    /\ UNCHANGED <<variant, summary>>
    /\ UNCHANGED <<cfgFile, loads, exit_status, openConns, probe>>

\* run() returned: sync_results.append((name, ok)), on to the next job
Return ==
    /\ pc = "return"
    /\ ret \in {"True", "False"}
    /\ sync_results' = Append(sync_results, <<TableName(variant, job), ret = "True">>)
    /\ jobIdx' = jobIdx + 1
    /\ pc' = "main"
    /\ LocalsReset
    /\ config' = NoConfig
    /\ UNCHANGED <<variant, summary>>
    /\ UNCHANGED <<cfgFile, loads, exit_status, openConns, probe>>

\* run() raised: nothing in main() catches it, the process ends with a
\* traceback and the exit status 1
Crash ==
    /\ pc = "return"
    /\ ret = "raise"
    /\ pc' = "crashed"
    /\ LocalsReset
    /\ config' = NoConfig
    /\ exit_status' = <<1>>
    /\ UNCHANGED <<variant, jobIdx, sync_results, summary>>
    /\ UNCHANGED <<cfgFile, loads, openConns, probe>>

\* a summary that calls the run a success when any table was synced
PrintSummaryAny(results) ==
    LET success_count == Cardinality({k \in 1..Len(results) : results[k][2]})
        total_count == Len(results)
    IN  [printed |-> TRUE,
         lines |-> [k \in 1..Len(results) |->
                       <<results[k][1], IF results[k][2] THEN "SUCCESS" ELSE "FAILED">>],
         count_line |-> variant = "DOUBLETAP",
         success_count |-> IF variant = "DOUBLETAP" THEN success_count ELSE 0,
         total_count |-> IF variant = "DOUBLETAP" THEN total_count ELSE 0,
         all_success |-> success_count > 0]

\* print_summary(results) of DOUBLETAP, the summary loop of the root main().
\* Only DOUBLETAP prints the line "Summary: x/y tables synced successfully".
PrintSummary(results) ==
    LET success_count == Cardinality({k \in 1..Len(results) : results[k][2]})
        total_count == Len(results)
    IN  [printed |-> TRUE,
         lines |-> [k \in 1..Len(results) |->
                       <<results[k][1], IF results[k][2] THEN "SUCCESS" ELSE "FAILED">>],
         count_line |-> variant = "DOUBLETAP",
         success_count |-> IF variant = "DOUBLETAP" THEN success_count ELSE 0,
         total_count |-> IF variant = "DOUBLETAP" THEN total_count ELSE 0,
         all_success |-> IF variant = "DOUBLETAP"
                         THEN success_count = total_count
                         ELSE \A k \in 1..Len(results) : results[k][2]]

\* main() after the last job: the summary, then input("Press Enter to exit...")
Summary ==
    /\ pc = "main"
    /\ jobIdx > Len(JobOrder(variant))
    /\ summary' = PrintSummary(sync_results)
    /\ exit_status' = <<0>>
    /\ pc' = "done"
    /\ UNCHANGED <<variant, jobIdx, conn, rowCount, odd, fetched, data, i, posts, sleeps,
                   closes, ret, sync_results>>
    /\ UNCHANGED <<cfgFile, config, loads, openConns, probe>>

Next ==
    \/ CallRun
    \/ ConfigExit
    \/ ConnectOk
    \/ ConnectFail
    \/ DoFetch
    \/ AfterFetch
    \/ DoPost
    \/ DoSleep
    \/ Finally
    \/ Return
    \/ Crash
    \/ Summary

Spec == Init /\ [][Next]_vars

\* the same run with config.json changing between the jobs
NextCfg ==
    \/ CallRun
    \/ ConfigExit
    \/ EditConfig
    \/ ConnectOk
    \/ ConnectFail
    \/ DoFetchFew
    \/ AfterFetch
    \/ DoPost
    \/ DoSleep
    \/ Finally
    \/ Return
    \/ Crash
    \/ Summary

SpecCfg == Init /\ [][NextCfg]_vars

\* one helper is called on its own, once, on a constructed job object
InitPure ==
    /\ variant \in Variants
    /\ pc = "main"
    /\ jobIdx = 1
    /\ conn = "none"
    /\ rowCount = 0
    /\ odd = <<>>
    /\ fetched = "no"
    /\ data = <<>>
    /\ i = 0
    /\ posts = <<>>
    /\ sleeps = 0
    /\ closes = 0
    /\ ret = "unset"
    /\ sync_results = <<>>
    /\ summary = NoSummary
    /\ cfgFile \in {"ok", "edited"}
    /\ config = LoadConfig(cfgFile).config
    /\ loads = 1
    /\ exit_status = <<>>
    /\ openConns = 0
    /\ probe = NoProbe

\* self.api_post(endpoint, data, timeout) with any timeout argument
ProbeApiPost ==
    /\ probe = NoProbe
    /\ \E j \in {JobOrder(variant)[k] : k \in 1..Len(JobOrder(variant))},
          t \in TimeoutArgs, env \in Envs :
          probe' = [op |-> "api_post", job |-> j, timeout |-> t,
                    out |-> ApiPost(Endpoint(j), <<>>, t, env)]
    /\ UNCHANGED <<variant, pc, jobIdx, conn, rowCount, odd, fetched, data, i, posts,
                   sleeps, closes, ret, sync_results, summary>>
    /\ UNCHANGED <<cfgFile, config, loads, exit_status, openConns>>

\* str(int(float(x))) on one identifier value
ProbeNormalizeId ==
    /\ probe = NoProbe
    /\ \E x \in IdInputs :
          probe' = [op |-> "normalize_id", x |-> x, out |-> NormalizeId(x)]
    /\ UNCHANGED <<variant, pc, jobIdx, conn, rowCount, odd, fetched, data, i, posts,
                   sleeps, closes, ret, sync_results, summary>>
    /\ UNCHANGED <<cfgFile, config, loads, exit_status, openConns>>

\* the row loop of one job on the value of one column
ProbeNormalizeField ==
    /\ probe = NoProbe
    /\ \E j \in {JobOrder(variant)[k] : k \in 1..Len(JobOrder(variant))},
          field \in Fields, val \in FieldValues :
          probe' = [op |-> "normalize_field", job |-> j, field |-> field, val |-> val,
                    out |-> NormalizeField(variant, j, field, val)]
    /\ UNCHANGED <<variant, pc, jobIdx, conn, rowCount, odd, fetched, data, i, posts,
                   sleeps, closes, ret, sync_results, summary>>
    /\ UNCHANGED <<cfgFile, config, loads, exit_status, openConns>>

NextPure ==
    \/ ProbeApiPost
    \/ ProbeNormalizeId
    \/ ProbeNormalizeField

SpecPure == InitPure /\ [][NextPure]_vars

\* both variants are given the same job, database and server
InitPair ==
    /\ InitPure
    /\ variant = "DOUBLETAP"
    /\ cfgFile = "ok"

\* the job is run by the root variant and by DOUBLETAP on the same rows and
\* the same answers
ProbeBothVariants ==
    /\ probe = NoProbe
    /\ \E j \in SharedJobs, connOk \in BOOLEAN, queryOk \in BOOLEAN,
          n \in PairRowCounts, failAt \in 1..3, env \in Envs :
          \E kinds \in [1..Min(n, 1) -> RowKinds(j)] :
             /\ (connOk \/ (queryOk /\ n = 0 /\ failAt = 1 /\ env = OkEnv))
             /\ (queryOk \/ (n = 0 /\ failAt = 1 /\ env = OkEnv))
             /\ LET rows == CursorRows(n, kinds)
                    answers == [k \in 1..3 |-> IF k = failAt THEN env ELSE OkEnv]
                IN  probe' = [op |-> "both_variants", job |-> j, connOk |-> connOk,
                              queryOk |-> queryOk, n |-> n, kinds |-> kinds,
                              failAt |-> failAt, env |-> env,
                              root |-> RunJob("root", j, connOk, queryOk, rows, answers),
                              doubletap |-> RunJob("DOUBLETAP", j, connOk, queryOk,
                                                   rows, answers)]
    /\ UNCHANGED <<variant, pc, jobIdx, conn, rowCount, odd, fetched, data, i, posts,
                   sleeps, closes, ret, sync_results, summary>>
    /\ UNCHANGED <<cfgFile, config, loads, exit_status, openConns>>

NextPair == ProbeBothVariants

SpecPair == InitPair /\ [][NextPair]_vars

TypeOK ==
    /\ variant \in Variants
    /\ pc \in {"main", "connect", "fetch", "fetched", "post", "sleep", "finally",
               "return", "crashed", "done", "exited"}
    /\ cfgFile \in ConfigFiles
    /\ config \in {NoConfig, Config, ConfigEdited}
    /\ exit_status \in {<<>>, <<0>>, <<1>>}
    /\ openConns \in 0..1
    /\ conn \in {"none", "open", "closed"}
    /\ ret \in {"unset", "True", "False", "raise"}
    /\ rowCount \in RowCounts
    /\ fetched \in {"no", "rows", "query_error", "row_error"}

(* ------------------------------ properties ---------------------------- *)
\* run() of the current job has ended (returned or raised); its locals and
\* the record of what it did are still in place
RunEnded == pc = "return"

AllOk(ps) == \A k \in 1..Len(ps) : ps[k].result = "ok"

CeilDiv(n, b) == IF n % b = 0 THEN n \div b ELSE (n \div b) + 1

\* C1: for every job, an empty fetched row-set makes run() return success
\* without any call of api_post.
C1_EmptyRowSetNoPost ==
    (RunEnded /\ fetched = "rows" /\ rowCount = 0) => (ret = "True" /\ posts = <<>>)

C3_FirstFailureAborts ==
    (posts # <<>> /\ job \in BatchedJobs)
    => \A k \in 1..Len(posts) :
          posts[k].result = "fail"
          => /\ k = Len(posts)
             /\ pc \in {"finally", "return"}
             /\ ret = "False"

\* C3 witness: a batched job ended on a failed second batch while records
\* were still to be sent.
C3_Witness ==
    /\ RunEnded
    /\ job \in BatchedJobs
    /\ Len(posts) = 2
    /\ posts[2].result = "fail"
    /\ i + BatchSize(job) < Len(data)

\* C4: a job's failure, whatever its cause, does not keep the later jobs from
\* running: when the process has ended every job of the run has run.
C4_LaterJobsStillRun ==
    (pc \in {"crashed", "done"}) => Len(sync_results) = Len(JobOrder(variant))

\* C5: no error escapes a job: run() always returns a boolean to main().
C5_RunReturnsBoolean == RunEnded => ret \in {"True", "False"}

\* C6: a job that opened a connection closes it exactly once on every way
\* out of run(), and nothing of the job (fetch, POST, sleep) follows the close.
C6_ClosedExactlyOnce ==
    /\ closes <= 1
    /\ (conn = "closed") = (closes = 1)
    /\ conn = "closed" => pc = "return"
    /\ RunEnded => conn # "open"
    /\ (RunEnded /\ fetched # "no") => closes = 1

\* C6 witness: run() ended by an exception after a POST, with the connection
\* closed once.
C6_Witness ==
    /\ RunEnded
    /\ ret = "raise"
    /\ posts # <<>>
    /\ conn = "closed"
    /\ closes = 1

\* C7: api_post reports success exactly when the status is 200, and never
\* raises to its caller.
C7_ApiPostContract ==
    \A k \in 1..Len(posts) :
        /\ posts[k].result # "raise"
        /\ (posts[k].result = "ok") = (posts[k].status = HTTP_OK)

\* C8: for every job, a row whose normalization raises is skipped and the
\* fetch goes on: the records are the rows that did not raise, in fetch order.
C8_ErrorRowsSkipped ==
    (fetched \in {"rows", "row_error"})
    => /\ fetched = "rows"
       /\ [k \in 1..Len(data) |-> data[k].id]
            = [k \in 1..Len(SelectSeq(CursorRows(rowCount, odd),
                                      LAMBDA r : r.kind # "malformed")) |->
                 SelectSeq(CursorRows(rowCount, odd),
                           LAMBDA r : r.kind # "malformed")[k].id]
       /\ Len(data) = rowCount - Cardinality({k \in DOMAIN odd : odd[k] = "malformed"})

\* a is a contiguous slice of s
IsSlice(a, s) ==
    \E lo \in 0..Len(s) : lo + Len(a) <= Len(s) /\ a = SubSeq(s, lo + 1, lo + Len(a))

\* C9: every POST of every job carries a contiguous slice of the job's records
\* of at most the job's batch size (500 or 1000).
C9_BoundedBatches ==
    \A k \in 1..Len(posts) :
        /\ IsSlice(posts[k].batch, data)
        /\ Len(posts[k].batch)
             <= (IF job \in BatchedJobs THEN BatchSize(job) ELSE ItemsBatchSize)

ExpectedTables ==
    IF variant = "DOUBLETAP"
    THEN <<"acc_users", "tb_item_master", "dine_bill (7 days)",
           "dine_bill_month (ALL)", "dine_kot_sales_detail", "cancelled_bills">>
    ELSE <<"acc_users", "tb_item_master", "dine_bill",
           "dine_kot_sales_detail", "cancelled_bills">>

\* C10: the jobs run in the declared order, and when the summary is printed
\* sync_results holds exactly one (name, flag) entry per job, in that order,
\* whichever jobs failed.
C10_ResultsInDeclaredOrder ==
    /\ Len(sync_results) <= Len(ExpectedTables)
    /\ \A k \in 1..Len(sync_results) :
          sync_results[k][1] = ExpectedTables[k] /\ sync_results[k][2] \in BOOLEAN
    /\ pc \in {"connect", "fetch", "fetched", "post", "sleep", "finally", "return"}
          => jobIdx = Len(sync_results) + 1
    /\ summary.printed
          => /\ Len(sync_results) = Len(ExpectedTables)
             /\ [k \in 1..Len(summary.lines) |-> summary.lines[k][1]] = ExpectedTables

\* C10 witness: the summary is printed after a run in which the first job
\* failed and a later one succeeded.
C10_Witness ==
    /\ summary.printed
    /\ ~sync_results[1][2]
    /\ \E k \in 2..Len(sync_results) : sync_results[k][2]

\* the process is inside the run() of the current job
InRun == pc \in {"connect", "fetch", "fetched", "post", "sleep", "finally", "return"}

ConfigBad == cfgFile \in {"absent", "invalid"}

\* C11: when config.json is absent or not valid JSON the process exits with a
\* nonzero status at the load that finds it so: no connection, no POST and no
\* summary follow, and the load is not tried again.
C11_BadConfigExitsAtOnce ==
    /\ ConfigBad => pc \in {"main", "exited"}
    /\ (ConfigBad /\ loads = 0) => (sync_results = <<>> /\ openConns = 0)
    /\ pc = "exited"
          => /\ ConfigBad
             /\ Len(exit_status) = 1 /\ exit_status[1] # 0
             /\ ~summary.printed
             /\ conn = "none" /\ openConns = 0 /\ fetched = "no" /\ posts = <<>>
             /\ loads = Len(sync_results) + 1

\* C11 witness: the file was not valid JSON at the start and the process has
\* exited at its first load.
C11_Witness ==
    /\ pc = "exited"
    /\ cfgFile = "invalid"
    /\ loads = 1
    /\ exit_status = <<1>>

\* C12: the configuration is loaded once per run and every job of the run
\* works with the values loaded first, whatever happens to the file meanwhile.
C12_ConfigLoadedOnce ==
    /\ loads <= 1
    /\ InRun => config = Config

\* C13: a failed connection attempt ends the job as failed with no fetch, no
\* POST and no close, main() records the failure, and the next job is
\* constructed and attempts its own connection.
C13_ConnectFailureIsJobFailure ==
    /\ []((RunEnded /\ conn = "none")
            => /\ ret = "False"
               /\ fetched = "no" /\ posts = <<>> /\ sleeps = 0 /\ closes = 0
               /\ openConns = 0)
    /\ [][(RunEnded /\ conn = "none")
            => /\ pc' = "main"
               /\ jobIdx' = jobIdx + 1
               /\ sync_results' = Append(sync_results, <<TableName(variant, job), FALSE>>)]_vars
    /\ [][(pc = "main" /\ jobIdx <= Len(JobOrder(variant)) /\ ~ConfigBad)
            => pc' = "connect"]_vars

\* C13 witness: the second job's connection attempt failed after the first
\* job had failed too.
C13_Witness ==
    /\ RunEnded
    /\ conn = "none"
    /\ ret = "False"
    /\ jobIdx = 2
    /\ ~sync_results[1][2]

\* C14: nothing is retried: a POST that did not succeed is the job's last
\* one, no batch is POSTed twice, an unbatched job POSTs at most once, and no
\* job is run twice in a run.
C14_NoRetry ==
    /\ \A k \in 1..Len(posts) : posts[k].result # "ok" => k = Len(posts)
    /\ \A k, l \in 1..Len(posts) : k < l => posts[k].batch # posts[l].batch
    /\ (InRun /\ job \notin BatchedJobs) => Len(posts) <= 1
    /\ \A k, l \in 1..Len(sync_results) :
          k < l => sync_results[k][1] # sync_results[l][1]
    /\ InRun => \A k \in 1..Len(sync_results) :
                   sync_results[k][1] # TableName(variant, job)
    /\ loads <= Len(sync_results) + 1

\* C14 witness: the only POST of the cancelled-bills job was answered 500 and
\* the job ended as failed.
C14_Witness ==
    /\ RunEnded
    /\ job = "CancelledBillsSync"
    /\ Len(posts) = 1
    /\ posts[1].status = 500
    /\ ret = "False"

\* C15: within a batched job a sleep lies between every two consecutive batch
\* POSTs: when a POST follows an earlier POST of the same job, every earlier
\* POST has been followed by its sleep, and a sleep is taken only after a
\* POST that another batch follows.
C15_SleepBetweenBatches ==
    /\ []((InRun /\ job \in BatchedJobs)
            => /\ sleeps <= Len(posts)
               /\ Len(posts) <= sleeps + 1
               /\ (pc = "post" => sleeps = Len(posts))
               /\ (pc = "sleep" => /\ sleeps = Len(posts) - 1
                                   /\ i + BatchSize(job) < Len(data)))
    /\ [][(Len(posts') = Len(posts) + 1 /\ Len(posts) >= 1)
             => (sleeps = Len(posts) /\ sleeps' = sleeps)]_vars

\* C15 witness: a batched job sent three batches (500, 500 and a shorter one)
\* and slept twice, once between each two of them.
C15_Witness ==
    /\ RunEnded
    /\ job \in BatchedJobs
    /\ Len(posts) = 3
    /\ Len(posts[1].batch) = BatchSize(job)
    /\ Len(posts[2].batch) = BatchSize(job)
    /\ Len(posts[3].batch) < BatchSize(job)
    /\ sleeps = 2

\* where a job execution is, in the words of the job state machine
JobState ==
    CASE pc = "connect" -> "Connecting"
      [] pc = "fetch" -> "Fetching"
      [] pc = "fetched" -> "Normalizing"
      [] pc \in {"post", "sleep"} -> "Transmitting"
      [] pc \in {"finally", "return"} ->
           IF conn = "none" THEN "ConnectFailed"
           ELSE IF ret = "raise" THEN "Raised"
           ELSE IF ret = "True"
           THEN IF posts = <<>> /\ pc = "finally" THEN "EmptyResult" ELSE "Succeeded"
           ELSE IF posts # <<>>
           THEN IF pc = "finally" THEN "BatchFailed" ELSE "Failed"
           ELSE "Failed"
      [] OTHER -> "NotStarted"

\* the transitions of the job state machine
JobSteps ==
    {<<"NotStarted", "Connecting">>,
     <<"Connecting", "ConnectFailed">>,
     <<"Connecting", "Fetching">>,
     <<"Fetching", "Normalizing">>,
     <<"Normalizing", "EmptyResult">>,
     <<"EmptyResult", "Succeeded">>,
     <<"Normalizing", "Transmitting">>,
     <<"Transmitting", "BatchFailed">>,
     <<"BatchFailed", "Failed">>,
     <<"Transmitting", "Succeeded">>}

\* C16: every step of a job execution is a transition of the job state
\* machine (or stays in its state), Transmitting is entered only with a
\* non-empty result, and ConnectFailed, Failed and Succeeded are left only by
\* ending the job.
C16_JobStateMachine ==
    [][InRun'
         => /\ JobState' = JobState \/ <<JobState, JobState'>> \in JobSteps
            /\ (JobState' = "Transmitting" /\ JobState # "Transmitting")
                  => Len(data) > 0
            /\ JobState \in {"ConnectFailed", "Failed", "Succeeded"}
                  => JobState' = JobState]_vars

\* C17: at every point of a run at most one connection is open; an open
\* connection is the one of the job that is running, between its connect and
\* its finally; none is open between two jobs, when a job is about to connect,
\* or when the run has ended.
C17_ConnectionNotShared ==
    /\ openConns <= 1
    /\ openConns = 1
          => (conn = "open" /\ pc \in {"fetch", "fetched", "post", "sleep", "finally"})
    /\ pc \in {"main", "connect", "done", "exited", "crashed"} => openConns = 0
    /\ (RunEnded /\ conn # "none") => (conn = "closed" /\ openConns = 0)

\* C17 witness: the first job failed, and the second job is sending on its
\* own connection, the only one open.
C17_Witness ==
    /\ jobIdx = 2
    /\ ~sync_results[1][2]
    /\ pc = "post"
    /\ conn = "open"
    /\ openConns = 1

\* the effect of a failed POST on its job: api_post returned ok = False, the
\* POST is the job's last one, the outcome is failure, and the connection is
\* closed once the job has ended
FailedPostEffect(k) ==
    /\ posts[k].result = "fail"
    /\ k = Len(posts)
    /\ pc \in {"finally", "return"}
    /\ ret = "False"
    /\ RunEnded => (conn = "closed" /\ closes = 1 /\ openConns = 0)

\* C19: a POST that ends in a network error or a timeout has the effect of a
\* POST answered with a status other than 200: the batch has failed, no
\* further batch is sent, the job's outcome is failure and its connection is
\* still closed.
C19_NetworkErrorIsBatchFailure ==
    \A k \in 1..Len(posts) :
        /\ posts[k].net \in {"ConnectionError", "Timeout"} => FailedPostEffect(k)
        /\ (posts[k].net = "response" /\ posts[k].status # HTTP_OK
               /\ posts[k].result # "raise") => FailedPostEffect(k)

\* C19 witness: a batched job whose second batch timed out while a third one
\* was still to send has ended as failed, with its connection closed.
C19_Witness ==
    /\ RunEnded
    /\ job \in BatchedJobs
    /\ Len(posts) = 2
    /\ posts[2].net = "Timeout"
    /\ Len(data) > 2 * BatchSize(job)
    /\ ret = "False"
    /\ conn = "closed"
    /\ closes = 1

\* C18: api_post sends with the timeout argument whenever one is passed and
\* with the configured api.timeout otherwise, whatever the passed value is;
\* the items job passes 120, the full-bills and KOT jobs pass 300 and the
\* other jobs pass nothing, so they send with the configured value.
C18_TimeoutOverride ==
    /\ probe.op = "api_post"
          => probe.out.timeout = (IF probe.timeout # None THEN probe.timeout
                                  ELSE config.api.timeout)
    /\ \A k \in 1..Len(JobOrder(variant)) :
          LET j == JobOrder(variant)[k]
          IN  RequestTimeout(TimeoutArg(j)) =
                 CASE j = "ItemsSync" -> 120
                   [] j \in {"BillsMonthSync", "KotSalesSync"} -> 300
                   [] OTHER -> config.api.timeout

\* an identifier in its normalized form: decimal digits without a leading
\* zero, with a minus sign for a negative number
IsDecimalInteger(x) ==
    LET body == IF x # <<>> /\ x[1] = "-" THEN Tail(x) ELSE x
    IN  /\ Len(body) >= 1
        /\ IsDigits(body)
        /\ (body[1] = "0" => (Len(body) = 1 /\ body = x))

\* C20: str(int(float(x))) of an identifier that is already a normalized
\* decimal-integer string is that same string.
C20_NormalizeIdIdempotent ==
    /\ (probe.op = "normalize_id" /\ IsDecimalInteger(probe.x))
          => (~probe.out.raised /\ probe.out.out = probe.x)
    /\ (probe.op = "normalize_id" /\ ~probe.out.raised)
          => (IsDecimalInteger(probe.out.out)
              /\ NormalizeId(probe.out.out).out = probe.out.out)

\* C20 witness: "1024" was normalized and is still "1024".
C20_Witness ==
    /\ probe.op = "normalize_id"
    /\ probe.x = <<"1", "0", "2", "4">>
    /\ probe.out.out = <<"1", "0", "2", "4">>

\* a float whose value is an integer
IsIntegralFloat(v) == v.t = "float" /\ v.frac = <<>>

\* C21: in every job whose row loop names the identifier, a non-null
\* identifier stored as the float n.0 becomes the decimal-integer string of n,
\* without a point or fractional digits, and a null identifier stays null.
C21_FloatIdBecomesIntegerString ==
    (probe.op = "normalize_field" /\ probe.field \in IdFields(probe.job))
    => /\ IsIntegralFloat(probe.val)
            => /\ ~probe.out.raised
               /\ probe.out.out.t = "str"
               /\ IsDecimalInteger(probe.out.out.s)
               /\ LET str == probe.out.out.s
                      body == IF str[1] = "-" THEN Tail(str) ELSE str
                  IN  /\ DigitsVal(body) = probe.val.whole
                      /\ (str[1] = "-") = (probe.val.neg /\ probe.val.whole # 0)
       /\ probe.val = PyNone => (~probe.out.raised /\ probe.out.out = PyNone)

\* C21 witness: the billno 1024.0 of a CancelledBillsSync row became "1024".
C21_Witness ==
    /\ probe.op = "normalize_field"
    /\ probe.job = "CancelledBillsSync"
    /\ probe.field = "billno"
    /\ probe.val = PyNum("float", FALSE, 1024, <<>>)
    /\ probe.out.out = PyStr(<<"1", "0", "2", "4">>)

\* C22: a free-text field of a normalized record has no blank at either end,
\* and a free-text field that is null in the row is the empty string in the
\* record, never null.
C22_TextFieldsStripped ==
    (probe.op = "normalize_field" /\ probe.field \in TextFields(probe.job)
       /\ ~probe.out.raised)
    => /\ probe.out.out.t = "str"
             => (probe.out.out.s = <<>>
                 \/ (probe.out.out.s[1] # " "
                     /\ probe.out.out.s[Len(probe.out.out.s)] # " "))
       /\ probe.out.out.t # "None"

\* C23: a summary is printed only when every job of the variant has run and
\* been recorded; the count line, where the variant prints one, shows the
\* number of successful jobs out of the number of jobs run, and the
\* all-succeeded message is shown exactly when every job succeeded.
C23_SummaryCounts ==
    summary.printed
    => /\ pc = "done"
       /\ jobIdx = Len(JobOrder(variant)) + 1
       /\ Len(sync_results) = Len(JobOrder(variant))
       /\ Len(summary.lines) = Len(sync_results)
       /\ summary.count_line
             => /\ summary.total_count = Len(sync_results)
                /\ summary.success_count =
                      Cardinality({k \in 1..Len(sync_results) : sync_results[k][2]})
       /\ summary.all_success <=> (\A k \in 1..Len(sync_results) : sync_results[k][2])

\* C23 witness: a DOUBLETAP run of six jobs of which exactly one failed: the
\* summary shows 5/6 and not the all-succeeded message.
C23_Witness ==
    /\ summary.printed
    /\ summary.count_line
    /\ summary.success_count = 5
    /\ summary.total_count = 6
    /\ ~summary.all_success

\* the records of the batches that api_post reported as accepted, in the
\* order in which they were sent
RECURSIVE Delivered(_)
Delivered(ps) ==
    IF ps = <<>> THEN <<>>
    ELSE LET before == Delivered(SubSeq(ps, 1, Len(ps) - 1))
         IN  IF ps[Len(ps)].result = "ok" THEN before \o ps[Len(ps)].batch ELSE before

\* C24: at every point of a batched job the batches sent are the consecutive
\* slices of the normalized records, in order, and the records delivered so
\* far are a prefix of them; a job that failed at batch k has delivered
\* exactly the batches 1..k-1, and a job that succeeded has delivered the
\* whole sequence, every record once.
C24_DeliveredIsPrefix ==
    (InRun /\ job \in BatchedJobs)
    => LET B == BatchSize(job)
           del == Delivered(posts)
       IN  /\ \A k \in 1..Len(posts) :
                 posts[k].batch = SubSeq(data, (k - 1) * B + 1, Min(k * B, Len(data)))
           /\ \A k \in 1..Len(posts) : posts[k].result = "ok" \/ k = Len(posts)
           /\ Len(del) <= Len(data)
           /\ del = SubSeq(data, 1, Len(del))
           /\ (RunEnded /\ ret = "False" /\ posts # <<>>)
                 => Len(del) = (Len(posts) - 1) * B
           /\ (RunEnded /\ ret = "True")
                 => (del = data
                     /\ \A k \in 1..(Len(del) - 1) : del[k].id < del[k + 1].id)

\* C24 witness: a batched job failed at its third batch: exactly the first
\* two batches were delivered and they stay delivered.
C24_Witness ==
    /\ RunEnded
    /\ job \in BatchedJobs
    /\ Len(posts) = 3
    /\ posts[3].result = "fail"
    /\ ret = "False"
    /\ Len(Delivered(posts)) = 2 * BatchSize(job)
    /\ Len(data) > 2 * BatchSize(job)

\* the configuration key of the endpoint of each table
EndpointKey(j) ==
    CASE j = "AccUsersSync" -> "endpoint"
      [] j = "ItemsSync" -> "items_endpoint"
      [] j = "BillsSync" -> "bills_endpoint"
      [] j = "BillsMonthSync" -> "bills_month_endpoint"
      [] j = "KotSalesSync" -> "kot_sales_endpoint"
      [] j = "CancelledBillsSync" -> "cancelled_bills_endpoint"

\* C25: every POST of a job goes to base_url followed by the endpoint
\* configured under that job's own key, and to the endpoint of no other job.
C25_OwnEndpointOnly ==
    InRun
    => \A k \in 1..Len(posts) :
          /\ posts[k].url = <<config.api.base_url, config.api[EndpointKey(job)]>>
          /\ \A n \in 1..Len(JobOrder(variant)) :
                n # jobIdx
                => posts[k].url[2] # config.api[EndpointKey(JobOrder(variant)[n])]

\* C25 witness: the full-bills job has posted a batch to bills_month_endpoint.
C25_Witness ==
    /\ InRun
    /\ job = "BillsMonthSync"
    /\ Len(posts) >= 1
    /\ posts[1].sent
    /\ posts[1].url = <<"http://api", "/bills-month">>

\* an exception occurred in run(): in fetch, in json.dumps or in resp.json()
ExceptionOccurred ==
    \/ fetched \in {"query_error", "row_error"}
    \/ \E k \in 1..Len(posts) : posts[k].result = "raise"

\* the POST was answered with the status 200
Returned200(p) == p.sent /\ p.net = "response" /\ p.status = HTTP_OK

\* the condition under which a job is said to succeed
SuccessCondition ==
    /\ conn # "none"
    /\ ~ExceptionOccurred
    /\ IF job \in BatchedJobs
       THEN \/ data = <<>>
            \/ /\ Len(posts) = CeilDiv(Len(data), BatchSize(job))
               /\ \A k \in 1..Len(posts) : Returned200(posts[k])
       ELSE Len(posts) = 1 /\ Returned200(posts[1])

\* C26: a job that has ended has the outcome success exactly when its
\* connection was opened, no exception occurred and its POSTs (none for an
\* empty batched job, one for an unbatched job, every batch otherwise) were
\* answered 200; in every other case its outcome is failure.
C26_OutcomeIffAllAccepted ==
    RunEnded
    => /\ ret = "True" <=> SuccessCondition
       /\ ~SuccessCondition => ret = "False"

\* C27: a batched job that has ended slept once after every batch but its
\* last one and never after a batch that failed: ceil(N/B) - 1 times when all
\* batches were accepted, k - 1 times when it stopped at batch k, and not at
\* all when it had a single batch or none.
C27_SleepCounts ==
    (RunEnded /\ job \in BatchedJobs)
    => /\ posts = <<>> => sleeps = 0
       /\ posts # <<>> => sleeps = Len(posts) - 1
       /\ (ret = "True" /\ data # <<>>)
             => sleeps = CeilDiv(Len(data), BatchSize(job)) - 1
       /\ (posts # <<>> /\ posts[Len(posts)].result # "ok")
             => sleeps = BatchNum(i, BatchSize(job)) - 1
       /\ Len(data) <= BatchSize(job) => sleeps = 0

\* C27 witness: a job with three batches to send failed at the second one
\* and has slept once.
C27_Witness ==
    /\ RunEnded
    /\ job \in BatchedJobs
    /\ Len(data) > 2 * BatchSize(job)
    /\ Len(posts) = 2
    /\ posts[2].result = "fail"
    /\ sleeps = 1

\* C28: a job sends at most ceil(N/B) POSTs (one when it is unbatched), and
\* a run that started with a valid configuration stops only after the
\* summary that follows the last job.
C28_RunReachesSummary ==
    /\ InRun
          => Len(posts) <= (IF job \in BatchedJobs
                            THEN CeilDiv(Len(data), BatchSize(job)) ELSE 1)
    /\ (~ConfigBad /\ ~ENABLED Next)
          => (pc = "done" /\ summary.printed /\ jobIdx = Len(JobOrder(variant)) + 1)

\* C29: on a job both variants have, given the same rows and the same
\* answers of the server, the root variant and DOUBLETAP issue the same POSTs
\* (URL, batch size, timeout) and return the same outcome.
C29_VariantsAgree ==
    probe.op = "both_variants"
    => (probe.root.posts = probe.doubletap.posts
        /\ probe.root.outcome = probe.doubletap.outcome)

====
